---- MODULE Spec2Model ----
(***************************************************************************)
(* State-machine model of the helper web client (emergency-web).          *)
(*                                                                         *)
(* The repository holds several revisions of the same App component.       *)
(* Each revision is a value of `variant`; an action is one handler of the  *)
(* component (or one event the browser / the transport posts to the event  *)
(* loop) and branches on the variant where the revisions differ.           *)
(*                                                                         *)
(*   "App_a"    src/src/App.js:1-203      (src/unnamed/part_000 has the    *)
(*                                         same logic)                     *)
(*   "App_b"    src/src/App.js:204-367    (src/unnamed/part_004 has the    *)
(*                                         same logic)                     *)
(*   "part_001" src/unnamed/part_001                                       *)
(*   "part_002" src/unnamed/part_002                                       *)
(*   "part_003" src/unnamed/part_003                                       *)
(*   "part_005" src/unnamed/part_005                                       *)
(***************************************************************************)
EXTENDS Integers, Sequences, FiniteSets, TLC

VARIABLES
    variant,          \* which revision of App runs
    urlId,            \* params.get("id") of the launch URL (Null when absent)
    \* ---- the module-level socket (socket.io-client) ----
    connected,        \* socket.connected
    active,           \* the manager is (re)connecting on its own
    attempts,         \* failed reconnection attempts since the last connect
    sendBuffer,       \* packets emitted while not connected, kept for the next connect
    handlers,         \* event name -> mounts (generations) that have a listener on it
    \* ---- the component ----
    mounted,          \* the mount effect has run and its cleanup has not
    gen,              \* number of mounts so far (identifies a component instance)
    qrId,             \* useState qrId
    status,           \* useState status
    isConnected,      \* useState isConnected (part_003)
    messages,         \* useState messages / chat
    inputText,        \* useState inputText
    heartbeat,        \* the setInterval of the mount effect is scheduled
    watching,         \* the watchPosition subscription is active
    location,         \* useState location
    geoPending,       \* getCurrentPosition requests in flight
    \* ---- audio ----
    isRecording,      \* useState isRecording
    audioState,       \* useState audioState (part_005)
    recorders,        \* every MediaRecorder created so far
    mediaRecorderRef, \* mediaRecorderRef.current: index into recorders, 0 = null
    audioChunksRef,   \* audioChunksRef.current of each component instance
    gumPending,       \* startRecording calls suspended at await getUserMedia
    sentTimers,       \* pending setTimeout(() => setAudioState("idle"), 1500)
    \* ---- what the last step did to the outside ----
    out,              \* socket.emit calls and packets flushed by the last step
    ui                \* alert()/confirm()/audio.play() effects of the last step

vars == <<variant, urlId, connected, active, attempts, sendBuffer, handlers,
          mounted, gen, qrId, status, isConnected, messages, inputText,
          heartbeat, watching, location, geoPending,
          isRecording, audioState, recorders, mediaRecorderRef, audioChunksRef,
          gumPending, sentTimers, out, ui>>

sockVars  == <<connected, active, attempts, sendBuffer, handlers>>
compVars  == <<mounted, gen, qrId, status, isConnected, messages, inputText>>
locVars   == <<heartbeat, watching, location, geoPending>>
audioVars == <<isRecording, audioState, recorders, mediaRecorderRef,
               audioChunksRef, gumPending, sentTimers>>

(***************************************************************************)
(* Bounds of the exploration.                                              *)
(***************************************************************************)
MaxMounts == 2
MaxRecorders == 2
MaxGeoPending == 1
MaxSendBuffer == 1
MaxLog == 2
MaxSentTimers == 1

(***************************************************************************)
(* Values.                                                                 *)
(***************************************************************************)
Null == "null"
Variants == {"App_a", "App_b", "part_001", "part_002", "part_003", "part_005"}
Tokens == {"ABC123"}
Positions == {"p1", "p2"}
Texts == {"", " ", "help"}
Infinity == -1

\* const QR_ID = urlParams.get('id') || "default-car"
DefaultToken == "default-car"
QR_ID == IF urlId = Null THEN DefaultToken ELSE urlId

\* The revisions that read the token into a module constant (QR_ID) and the
\* ones that read it in the mount effect (`id`, mirrored into state qrId).
UsesQR_ID(v) == v = "App_a"

\* `id` of the mount effect's closure: what handleJoin tests and sends.
ClosureId(v) == IF UsesQR_ID(v) THEN QR_ID ELSE urlId

\* A variation of PayloadToken: the module constant without the
\* "default-car" fallback.
PayloadTokenNoFallback(v) == IF UsesQR_ID(v) THEN urlId ELSE qrId

\* The token a user-action handler of the rendered component puts in a payload.
PayloadToken(v) == IF UsesQR_ID(v) THEN QR_ID ELSE qrId

\* io(URL, { reconnectionAttempts: ... }); socket.io's default is Infinity.
ReconnectionAttempts(v) ==
    CASE v = "part_002" -> 5
      [] v = "part_003" -> 10
      [] OTHER -> Infinity

\* Event names of the relay boundary as each revision spells them.
JoinEvent(v) == IF v = "App_a" THEN "join-family" ELSE "join-room"
LocationEvent(v) == IF v = "App_a" THEN "scan-qr" ELSE "critical-alert"
AlertEvent(v) == IF v = "App_a" THEN "trigger-alert" ELSE "incoming-alarm"
JoinEvents == {"join-family", "join-room"}
LocationEvents == {"scan-qr", "critical-alert"}
AlertEvents == {"trigger-alert", "incoming-alarm"}

\* Which revisions have which wiring in the mount effect.
HasConnectHandler(v) == v # "App_b"
JoinsIfConnectedAtMount(v) == v \in {"part_001", "part_002", "part_003", "part_005"}
JoinsAtMount(v) == v = "App_b"
HasHeartbeat(v) == v = "App_a"
HasDisconnectHandler(v) == v \in {"App_a", "part_003"}
WatchesPosition(v) == v = "App_a"
HasReceiveAudio(v) == v # "part_005"
TogglesMic(v) == v \in {"App_a", "part_003"}

\* The status strings, by the link state they present.
\*   "Connecting..."                                         -> "Connecting"
\*   "Connected ...", "LIVE LINK ACTIVE"                     -> "Joined"
\*   "Disconnected ..." (part_003)                           -> "Disconnected"
\*   "Disconnected... Reconnecting", "SIGNAL LOST -
\*   RECONNECTING..." (App_a)                                -> "Reconnecting"
\*   "Invalid QR ..."                                        -> "Invalid"
LinkStates == {"Connecting", "Joined", "Disconnected", "Reconnecting", "Invalid"}

Events == {"connect", "disconnect", "receive-chat", "receive-audio"}
NoHandlers == [e \in Events |-> {}]

(***************************************************************************)
(* socket.emit: a packet emitted while the socket is connected goes out,   *)
(* one emitted while it is not is kept in the socket's send buffer and     *)
(* goes out on the next connect (the "queue buildup" of App.js:86).        *)
(* `s` is the pair [buf, out] threaded through one handler.  The payload   *)
(* beside the token is a sequence: <<>> for none, <<position>>,            *)
(* <<text, sender>>, or the chunks of a clip.                              *)
(***************************************************************************)
Packet(ev, tok, data) == [ev |-> ev, token |-> tok, data |-> data]

Emit(s, c, pkt) ==
    IF c
    THEN [s EXCEPT !.out = Append(@, [pkt |-> pkt, via |-> "sent"])]
    ELSE [buf |-> Append(s.buf, pkt),
          out |-> Append(s.out, [pkt |-> pkt, via |-> "buffered"])]

Io0 == [buf |-> sendBuffer, out |-> <<>>]

Commit(s) ==
    /\ Len(s.buf) <= MaxSendBuffer
    /\ sendBuffer' = s.buf
    /\ out' = s.out

NoEmit == out' = <<>> /\ UNCHANGED sendBuffer


(***************************************************************************)
(* Initial state: the module has been evaluated (the socket exists and is  *)
(* connecting on its own, autoConnect), the component has not mounted.     *)
(***************************************************************************)
Init ==
    /\ variant \in Variants
    /\ urlId \in Tokens \cup {Null}
    /\ connected = FALSE
    /\ active = TRUE
    /\ attempts = 0
    /\ sendBuffer = <<>>
    /\ handlers = NoHandlers
    /\ mounted = FALSE
    /\ gen = 0
    /\ qrId = Null
    /\ status = "Connecting"
    /\ isConnected = FALSE
    /\ messages = <<>>
    /\ inputText = ""
    /\ heartbeat = FALSE
    /\ watching = FALSE
    /\ location = Null
    /\ geoPending = <<>>
    /\ isRecording = FALSE
    /\ audioState = "idle"
    /\ recorders = <<>>
    /\ mediaRecorderRef = 0
    /\ audioChunksRef = [g \in 1..MaxMounts |-> <<>>]
    /\ gumPending = <<>>
    /\ sentTimers = 0
    /\ out = <<>>
    /\ ui = {}

(***************************************************************************)
(* Location requests.                                                      *)
(***************************************************************************)
\* navigator.geolocation.getCurrentPosition(success, error, ...): one request
\* in flight; `id` is the token its success callback sends, `silent` whether
\* its callbacks stay quiet (updateLocation's second parameter).
GeoRequest(id, silent) == [id |-> id, silent |-> silent]

\* `location` as handleConnect sees it: the effect has no dependencies, so
\* its closure keeps the value of the first render, useState(null).
ClosureLocation == Null

(***************************************************************************)
(* handleJoin / handleConnect: the "connect" listener of the mount effect. *)
(***************************************************************************)
\* The packets the join handler emits, threaded through s.
JoinEmits(s, v, c) ==
    IF v = "App_a"
    THEN LET s1 == Emit(s, c, Packet("join-family", QR_ID, <<>>))
         IN  IF ClosureLocation # Null
             THEN Emit(s1, c, Packet("scan-qr", QR_ID, <<ClosureLocation>>))
             ELSE s1
    ELSE IF ClosureId(v) # Null
         THEN Emit(s, c, Packet("join-room", ClosureId(v), <<>>))
         ELSE s

\* setStatus of the join handler.
JoinStatus(v) ==
    IF v = "App_a" THEN "Joined"
    ELSE IF ClosureId(v) # Null THEN "Joined" ELSE "Invalid"

\* setIsConnected(true) of part_003's handleJoin.
JoinIsConnected(v, old) ==
    IF v = "part_003" /\ ClosureId(v) # Null THEN TRUE ELSE old

\* The one-shot position request the join handler issues.
JoinGeo(v, geo) ==
    IF v # "App_a" /\ ClosureId(v) # Null
    THEN Append(geo, GeoRequest(ClosureId(v), TRUE))
    ELSE geo

(***************************************************************************)
(* The mount effect (useEffect(..., [])) on a fresh component instance.    *)
(***************************************************************************)
\* A variation of MountHandlers: the effect does not subscribe to
\* "receive-chat".
MountHandlersNoChat(v, g) ==
    [e \in Events |->
        IF \/ e = "connect" /\ HasConnectHandler(v)
           \/ e = "disconnect" /\ HasDisconnectHandler(v)
           \/ e = "receive-audio" /\ HasReceiveAudio(v)
        THEN handlers[e] \cup {g}
        ELSE handlers[e]]

MountHandlers(v, g) ==
    [e \in Events |->
        IF \/ e = "connect" /\ HasConnectHandler(v)
           \/ e = "disconnect" /\ HasDisconnectHandler(v)
           \/ e = "receive-chat"
           \/ e = "receive-audio" /\ HasReceiveAudio(v)
        THEN handlers[e] \cup {g}
        ELSE handlers[e]]

\* Whether the effect runs the join logic itself: App_b always does (it has
\* no connect listener), the handleJoin revisions do when socket.connected.
MountJoins(v) == JoinsAtMount(v) \/ (JoinsIfConnectedAtMount(v) /\ connected)

Mount ==
    /\ ~mounted
    /\ gen < MaxMounts
    /\ mounted' = TRUE
    /\ gen' = gen + 1
    /\ qrId' = IF UsesQR_ID(variant) THEN Null ELSE urlId
    /\ handlers' = MountHandlers(variant, gen + 1)
    /\ messages' = <<>>
    /\ inputText' = ""
    /\ location' = Null
    /\ isRecording' = FALSE
    /\ audioState' = "idle"
    /\ mediaRecorderRef' = 0
    /\ sentTimers' = 0
    /\ heartbeat' = HasHeartbeat(variant)
    /\ watching' = WatchesPosition(variant)
    /\ IF MountJoins(variant)
       THEN /\ Commit(JoinEmits(Io0, variant, connected))
            /\ status' = JoinStatus(variant)
            /\ isConnected' = JoinIsConnected(variant, FALSE)
            /\ geoPending' = JoinGeo(variant, geoPending)
            /\ Len(geoPending') <= MaxGeoPending
       ELSE /\ NoEmit
            /\ status' = "Connecting"
            /\ isConnected' = FALSE
            /\ UNCHANGED geoPending
    /\ ui' = {}
    /\ UNCHANGED <<variant, urlId, connected, active, attempts,
                   recorders, audioChunksRef, gumPending>>

(***************************************************************************)
(* The cleanup of the mount effect.                                        *)
(***************************************************************************)
\* socket.off(e) without a listener removes every listener of e.
UnmountHandlers(v) ==
    [e \in Events |->
        IF \/ v = "App_b"
           \/ e = "disconnect" /\ v \notin {"App_a", "part_003"}
           \/ e = "receive-audio" /\ v = "part_005"
        THEN handlers[e]
        ELSE {}]

Unmount ==
    /\ mounted
    /\ mounted' = FALSE
    /\ handlers' = UnmountHandlers(variant)
    /\ heartbeat' = FALSE
    /\ watching' = FALSE
    \* App_b: return () => socket.disconnect()
    /\ IF variant = "App_b"
       THEN connected' = FALSE /\ active' = FALSE
       ELSE UNCHANGED <<connected, active>>
    /\ NoEmit
    /\ ui' = {}
    /\ UNCHANGED <<variant, urlId, attempts, gen, qrId, status, isConnected,
                   messages, inputText, location, geoPending, audioVars>>


(***************************************************************************)
(* The transport: events the socket posts to the event loop.               *)
(***************************************************************************)
\* The packets of the send buffer go out when the socket connects.
Flush(s) ==
    [buf |-> <<>>,
     out |-> s.out \o [i \in 1..Len(s.buf) |-> [pkt |-> s.buf[i], via |-> "flushed"]]]

\* "connect": the handshake succeeded; the listener of the mount effect runs.
TransportConnect ==
    /\ ~connected
    /\ active
    /\ connected' = TRUE
    /\ attempts' = 0
    /\ IF handlers["connect"] # {}
       THEN /\ Commit(JoinEmits(Flush(Io0), variant, TRUE))
            /\ status' = JoinStatus(variant)
            /\ isConnected' = JoinIsConnected(variant, isConnected)
            /\ geoPending' = JoinGeo(variant, geoPending)
            /\ Len(geoPending') <= MaxGeoPending
       ELSE /\ Commit(Flush(Io0))
            /\ UNCHANGED <<status, isConnected, geoPending>>
    /\ ui' = {}
    /\ UNCHANGED <<variant, urlId, active, handlers, mounted, gen, qrId,
                   messages, inputText, heartbeat, watching, location,
                   audioVars>>

\* setStatus / setIsConnected of the "disconnect" listener.
DisconnectStatus(v, old) ==
    IF handlers["disconnect"] = {} THEN old
    ELSE IF v = "App_a" THEN "Reconnecting" ELSE "Disconnected"

DisconnectIsConnected(v, old) ==
    IF handlers["disconnect"] # {} /\ v = "part_003" THEN FALSE ELSE old

\* "disconnect": the transport dropped.  The manager reconnects on its own
\* unless the server closed the socket ("io server disconnect").
DisconnectReasons == {"transport close", "io server disconnect"}

TransportDisconnect ==
    /\ connected
    /\ \E reason \in DisconnectReasons :
          active' = (reason # "io server disconnect")
    /\ connected' = FALSE
    /\ status' = DisconnectStatus(variant, status)
    /\ isConnected' = DisconnectIsConnected(variant, isConnected)
    /\ NoEmit
    /\ ui' = {}
    /\ UNCHANGED <<variant, urlId, attempts, handlers, mounted, gen, qrId,
                   messages, inputText, locVars, audioVars>>

\* A reconnection attempt fails.  With a bounded reconnectionAttempts the
\* manager gives up after that many ("reconnect_failed"); no listener of the
\* component is attached to that event.
TransportFail ==
    /\ ~connected
    /\ active
    /\ ReconnectionAttempts(variant) # Infinity
    /\ attempts' = attempts + 1
    /\ active' = (attempts + 1 < ReconnectionAttempts(variant))
    /\ NoEmit
    /\ ui' = {}
    /\ UNCHANGED <<variant, urlId, connected, handlers, compVars, locVars,
                   audioVars>>

(***************************************************************************)
(* The heartbeat: setInterval(..., 5000) of the mount effect.              *)
(***************************************************************************)
\* A variation of the heartbeat: a tick on a disconnected socket does not
\* call socket.connect().
HeartbeatNoReconnect ==
    /\ heartbeat
    /\ IF connected
       THEN Commit(Emit(Io0, TRUE, Packet("join-family", QR_ID, <<>>)))
       ELSE NoEmit
    /\ ui' = {}
    /\ UNCHANGED <<variant, urlId, connected, active, attempts, handlers,
                   compVars, locVars, audioVars>>

Heartbeat ==
    /\ heartbeat
    /\ IF connected
       THEN /\ Commit(Emit(Io0, TRUE, Packet("join-family", QR_ID, <<>>)))
            /\ UNCHANGED active
       ELSE /\ NoEmit
            /\ active' = TRUE       \* socket.connect()
    /\ ui' = {}
    /\ UNCHANGED <<variant, urlId, connected, attempts, handlers, compVars,
                   locVars, audioVars>>

(***************************************************************************)
(* Location.                                                               *)
(***************************************************************************)
\* watchPosition's success callback.
WatchSample ==
    /\ watching
    /\ \E pos \in Positions :
          /\ location' = pos
          /\ IF connected
             THEN Commit(Emit(Io0, TRUE, Packet("scan-qr", QR_ID, <<pos>>)))
             ELSE NoEmit
    /\ ui' = {}
    /\ UNCHANGED <<variant, urlId, connected, active, attempts, handlers,
                   compVars, heartbeat, watching, geoPending, audioVars>>

\* watchPosition's error callback: console.log only.
WatchError ==
    /\ watching
    /\ NoEmit
    /\ ui' = {"log:GPS Error"}
    /\ UNCHANGED <<variant, urlId, connected, active, attempts, handlers,
                   compVars, locVars, audioVars>>

RemoveAt(seq, i) == SubSeq(seq, 1, i - 1) \o SubSeq(seq, i + 1, Len(seq))

\* getCurrentPosition's success callback: socket.emit without a look at
\* socket.connected.
GeoSuccess ==
    /\ \E i \in 1..Len(geoPending), pos \in Positions :
          /\ Commit(Emit(Io0, connected,
                         Packet("critical-alert", geoPending[i].id, <<pos>>)))
          /\ ui' = IF geoPending[i].silent THEN {} ELSE {"alert:Location Sent"}
          /\ geoPending' = RemoveAt(geoPending, i)
    /\ UNCHANGED <<variant, urlId, connected, active, attempts, handlers,
                   compVars, heartbeat, watching, location, audioVars>>

\* A variation of GeoError: the error callback also marks the link as
\* lost.
GeoErrorDropsLink ==
    /\ \E i \in 1..Len(geoPending) :
          /\ ui' = IF geoPending[i].silent
                   THEN {"log:location error"}
                   ELSE {"log:location error", "alert:Could not get location"}
          /\ geoPending' = RemoveAt(geoPending, i)
    /\ NoEmit
    /\ status' = "Disconnected"
    /\ isConnected' = FALSE
    /\ UNCHANGED <<variant, urlId, connected, active, attempts, handlers,
                   mounted, gen, qrId, messages, inputText,
                   heartbeat, watching, location, audioVars>>

\* getCurrentPosition's error callback.
GeoError ==
    /\ \E i \in 1..Len(geoPending) :
          /\ ui' = IF geoPending[i].silent
                   THEN {"log:location error"}
                   ELSE {"log:location error", "alert:Could not get location"}
          /\ geoPending' = RemoveAt(geoPending, i)
    /\ NoEmit
    /\ UNCHANGED <<variant, urlId, connected, active, attempts, handlers,
                   compVars, heartbeat, watching, location, audioVars>>

\* The component renders its controls (the revisions with state qrId render
\* only an "Invalid QR" screen while qrId is null).
Rendered == mounted /\ (UsesQR_ID(variant) \/ qrId # Null)

\* part_003's "UPDATE LOC" button: updateLocation() with its defaults.
UpdateLocation ==
    /\ Rendered
    /\ variant = "part_003"
    /\ qrId # Null
    /\ Len(geoPending) < MaxGeoPending
    /\ geoPending' = Append(geoPending, GeoRequest(qrId, FALSE))
    /\ ui' = {"alert:Updating Location"}
    /\ NoEmit
    /\ UNCHANGED <<variant, urlId, connected, active, attempts, handlers,
                   compVars, heartbeat, watching, location, audioVars>>


(***************************************************************************)
(* Audio capture.                                                          *)
(*                                                                         *)
(* A recorder is one MediaRecorder with the closures startRecording made   *)
(* for it:                                                                 *)
(*   gen    the component instance whose startRecording created it         *)
(*   state  MediaRecorder.state: "recording" | "inactive"                  *)
(*   phase  "live"      started, stop() not called                         *)
(*          "stopping"  stop() called, its dataavailable/stop task queued  *)
(*          "reading"   onstop ran, FileReader.readAsDataURL in progress   *)
(*          "done"      onloadend ran                                      *)
(*   chunks the `chunks` array of the closure (App_a)                      *)
(*   blob   what onstop assembled                                          *)
(*   stream the getUserMedia stream still has live tracks                  *)
(*   token  qrId as the closure captured it                                *)
(*   dup    the startRecording call was made while a recorder was recording*)
(*   sends  number of "send-audio" emits its onloadend made                *)
(*   via    how that emit left: "none" | "sent" | "buffered"               *)
(*   logged number of entries its onloadend appended to messages           *)
(* A chunk is the index of the recorder that produced it (0: an empty      *)
(* blob).                                                                  *)
(***************************************************************************)
Capturing == \E i \in 1..Len(recorders) : recorders[i].state = "recording"

\* The state flag each revision keeps for the microphone button.
FlagRecording == IF variant = "part_005" THEN audioState = "recording" ELSE isRecording

\* part_005: if (audioState === "recording") return;
StartGuard(v) == ~(v = "part_005" /\ audioState = "recording")

\* startRecording up to its await: press of the hold button, or a click of
\* the toggle button while the flag reads idle.
StartRecording ==
    /\ Rendered
    /\ TogglesMic(variant) => ~isRecording
    /\ Len(recorders) + Len(gumPending) < MaxRecorders
    /\ IF StartGuard(variant)
       THEN gumPending' = Append(gumPending,
                [gen |-> gen, token |-> PayloadToken(variant), dup |-> Capturing,
                 released |-> FALSE])
       ELSE UNCHANGED gumPending
    /\ NoEmit
    /\ ui' = {}
    /\ UNCHANGED <<variant, urlId, connected, active, attempts, handlers,
                   compVars, locVars, isRecording, audioState, recorders,
                   mediaRecorderRef, audioChunksRef, sentTimers>>

\* The component instance g is the one on screen (a setState or a ref write
\* of another instance's closure does not touch it).
Current(g) == mounted /\ g = gen

NewRecorder(p) ==
    [gen |-> p.gen, state |-> "recording", phase |-> "live", chunks |-> <<>>,
     blob |-> <<>>, stream |-> TRUE, token |-> p.token, dup |-> p.dup,
     sends |-> 0, via |-> "none", logged |-> 0]

\* getUserMedia resolved: the rest of startRecording's try block.
GumResolve ==
    /\ \E i \in 1..Len(gumPending) :
          LET p == gumPending[i] IN
          /\ recorders' = Append(recorders, NewRecorder(p))
          /\ gumPending' = RemoveAt(gumPending, i)
          /\ audioChunksRef' =
                IF variant = "App_a" THEN audioChunksRef
                ELSE [audioChunksRef EXCEPT ![p.gen] = <<>>]
          /\ IF Current(p.gen)
             THEN /\ mediaRecorderRef' = Len(recorders) + 1
                  /\ IF variant = "part_005"
                     THEN audioState' = "recording" /\ UNCHANGED isRecording
                     ELSE isRecording' = TRUE /\ UNCHANGED audioState
             ELSE UNCHANGED <<mediaRecorderRef, isRecording, audioState>>
    /\ NoEmit
    /\ ui' = {}
    /\ UNCHANGED <<variant, urlId, connected, active, attempts, handlers,
                   compVars, locVars, sentTimers>>

\* A variation of GumReject: the catch block swallows the error, no alert
\* is shown.
GumRejectSilent ==
    /\ \E i \in 1..Len(gumPending) :
          LET p == gumPending[i] IN
          /\ gumPending' = RemoveAt(gumPending, i)
          /\ IF Current(p.gen) /\ variant = "part_003"
             THEN isRecording' = FALSE
             ELSE UNCHANGED isRecording
          /\ IF Current(p.gen) /\ variant = "part_005"
             THEN audioState' = "idle"
             ELSE UNCHANGED audioState
    /\ NoEmit
    /\ ui' = {}
    /\ UNCHANGED <<variant, urlId, connected, active, attempts, handlers,
                   compVars, locVars, recorders, mediaRecorderRef,
                   audioChunksRef, sentTimers>>

\* getUserMedia rejected: the catch block.
GumReject ==
    /\ \E i \in 1..Len(gumPending) :
          LET p == gumPending[i] IN
          /\ gumPending' = RemoveAt(gumPending, i)
          /\ IF Current(p.gen) /\ variant = "part_003"
             THEN isRecording' = FALSE
             ELSE UNCHANGED isRecording
          /\ IF Current(p.gen) /\ variant = "part_005"
             THEN audioState' = "idle"
             ELSE UNCHANGED audioState
    /\ NoEmit
    /\ ui' = {"alert:Microphone access denied"}
    /\ UNCHANGED <<variant, urlId, connected, active, attempts, handlers,
                   compVars, locVars, recorders, mediaRecorderRef,
                   audioChunksRef, sentTimers>>

\* The condition under which stopRecording calls mediaRecorderRef.current.stop().
StopGuard(v) ==
    /\ mediaRecorderRef # 0
    /\ v = "part_002" => recorders[mediaRecorderRef].state # "inactive"
    /\ v = "part_005" => audioState = "recording"

\* App_a clears the flag outside the if; part_005 leaves it to onloadend.
ClearsFlagWithoutStop(v) == v = "App_a"
\* The revisions whose stopRecording clears the flag inside the if.
ClearsFlagAfterStop(v) == v # "part_005"

\* The hold button went up: the presses of component instance g that still
\* wait for getUserMedia are no longer held.
ReleasePending(pending, g) ==
    [k \in 1..Len(pending) |->
        IF pending[k].gen = g THEN [pending[k] EXCEPT !.released = TRUE]
        ELSE pending[k]]

\* stopRecording: release of the hold button (mouse up, touch end, and in
\* part_005 mouse leave), or a click of the toggle button while the flag
\* reads recording.  MediaRecorder.stop() on an inactive recorder either
\* returns or throws InvalidStateError, depending on the browser.
StopRecording ==
    /\ Rendered
    /\ TogglesMic(variant) => isRecording
    /\ IF ~StopGuard(variant)
       THEN /\ isRecording' = IF ClearsFlagWithoutStop(variant) THEN FALSE ELSE isRecording
            /\ ui' = {}
            /\ UNCHANGED recorders
       ELSE IF recorders[mediaRecorderRef].state = "recording"
       THEN /\ recorders' = [recorders EXCEPT ![mediaRecorderRef].state = "inactive",
                                              ![mediaRecorderRef].phase = "stopping"]
            /\ isRecording' = IF ClearsFlagAfterStop(variant) THEN FALSE ELSE isRecording
            /\ ui' = {}
       ELSE \E throws \in BOOLEAN :
            /\ isRecording' = IF ~throws /\ ClearsFlagAfterStop(variant)
                              THEN FALSE ELSE isRecording
            /\ ui' = IF throws THEN {"error:InvalidStateError"} ELSE {}
            /\ UNCHANGED recorders
    /\ gumPending' = IF TogglesMic(variant) THEN gumPending
                     ELSE ReleasePending(gumPending, gen)
    /\ NoEmit
    /\ UNCHANGED <<variant, urlId, connected, active, attempts, handlers,
                   compVars, locVars, audioState, mediaRecorderRef,
                   audioChunksRef, sentTimers>>

\* The chunk store a recorder's ondataavailable / onstop use.
ChunkStore(i) ==
    IF variant = "App_a" THEN recorders[i].chunks
    ELSE audioChunksRef[recorders[i].gen]

\* ondataavailable: App_a pushes every blob, the others only non-empty ones.
PushChunk(store, i, size) ==
    IF size > 0 THEN Append(store, i)
    ELSE IF variant = "App_a" THEN Append(store, 0)
    ELSE store

\* The task stop() queued: "dataavailable" with what was recorded, then
\* "stop".  onstop assembles the blob and starts the FileReader; part_003
\* also stops the stream's tracks.
RecorderStopTask ==
    /\ \E i \in 1..Len(recorders), size \in {0, 1} :
          /\ recorders[i].phase = "stopping"
          /\ LET store == PushChunk(ChunkStore(i), i, size) IN
             /\ recorders' = [recorders EXCEPT
                    ![i].phase = "reading",
                    ![i].chunks = IF variant = "App_a" THEN store ELSE @,
                    ![i].blob = store,
                    ![i].stream = IF variant = "part_003" THEN FALSE ELSE @]
             /\ audioChunksRef' =
                    IF variant = "App_a" THEN audioChunksRef
                    ELSE [audioChunksRef EXCEPT ![recorders[i].gen] = store]
    /\ NoEmit
    /\ ui' = {}
    /\ UNCHANGED <<variant, urlId, connected, active, attempts, handlers,
                   compVars, locVars, isRecording, audioState,
                   mediaRecorderRef, gumPending, sentTimers>>

\* reader.result of readAsDataURL(blob).
DataURL(blob) == [mime |-> "audio/webm", base64 |-> blob]

AudioEntry(sender, data) ==
    [sender |-> sender, type |-> "audio", text |-> "", audioData |-> data]

\* part_003's onloadend appends the clip to the chat.
LogsOwnClips(v) == v = "part_003"

\* reader.onloadend: socket.emit("send-audio", ...) without a look at the
\* link; part_003 then appends the clip, part_005 shows "sent" for 1.5 s.
ReaderLoadEnd ==
    /\ \E i \in 1..Len(recorders) :
          LET r == recorders[i]
              live == Current(r.gen)
              logs == LogsOwnClips(variant) /\ live
          IN
          /\ r.phase = "reading"
          /\ Commit(Emit(Io0, connected,
                         Packet("send-audio", r.token, <<DataURL(r.blob)>>)))
          /\ recorders' = [recorders EXCEPT
                 ![i].phase = "done",
                 ![i].sends = @ + 1,
                 ![i].via = IF connected THEN "sent" ELSE "buffered",
                 ![i].logged = IF logs THEN @ + 1 ELSE @]
          /\ IF logs
             THEN /\ Len(messages) < MaxLog
                  /\ messages' = Append(messages, AudioEntry("Helper", DataURL(r.blob)))
             ELSE UNCHANGED messages
          /\ IF variant = "part_005" /\ live
             THEN /\ sentTimers < MaxSentTimers
                  /\ audioState' = "sent"
                  /\ sentTimers' = sentTimers + 1
             ELSE UNCHANGED <<audioState, sentTimers>>
    /\ ui' = {}
    /\ UNCHANGED <<variant, urlId, connected, active, attempts, handlers,
                   mounted, gen, qrId, status, isConnected, inputText,
                   locVars, isRecording, mediaRecorderRef, audioChunksRef,
                   gumPending>>

\* setTimeout(() => setAudioState("idle"), 1500) fires.
SentTimerFire ==
    /\ sentTimers > 0
    /\ sentTimers' = sentTimers - 1
    /\ audioState' = "idle"
    /\ NoEmit
    /\ ui' = {}
    /\ UNCHANGED <<variant, urlId, connected, active, attempts, handlers,
                   compVars, locVars, isRecording, recorders,
                   mediaRecorderRef, audioChunksRef, gumPending>>


(***************************************************************************)
(* Chat and alert.                                                         *)
(***************************************************************************)
\* A variation of ChatEntry: the local echo is tagged "Me", not with the
\* sender of the message.
ChatEntryMe(sender, text) ==
    [sender |-> "Me", type |-> "text", text |-> text, audioData |-> <<>>]

ChatEntry(sender, text) ==
    [sender |-> sender, type |-> "text", text |-> text, audioData |-> <<>>]

\* onChange of the input: setInputText(e.target.value).
TypeText ==
    /\ Rendered
    /\ \E txt \in Texts : inputText' = txt /\ txt # inputText
    /\ NoEmit
    /\ ui' = {}
    /\ UNCHANGED <<variant, urlId, sockVars, mounted, gen, qrId, status,
                   isConnected, messages, locVars, audioVars>>

\* String.prototype.trim on the texts of the model.
Trim(txt) == IF txt = " " THEN "" ELSE txt

\* The text sendText / sendMessage tests for emptiness: App_a tests the raw
\* input, the others the trimmed one.
SendTest(v, txt) == IF v = "App_a" THEN txt ELSE Trim(txt)

\* sendText / sendMessage.
SendMessage ==
    /\ Rendered
    /\ IF SendTest(variant, inputText) = ""
       THEN /\ NoEmit
            /\ UNCHANGED <<messages, inputText>>
       ELSE /\ Len(messages) < MaxLog
            /\ Commit(Emit(Io0, connected,
                   Packet("send-chat", PayloadToken(variant), <<inputText, "Helper">>)))
            /\ messages' = Append(messages, ChatEntry("Helper", inputText))
            /\ inputText' = ""
    /\ ui' = {}
    /\ UNCHANGED <<variant, urlId, connected, active, attempts, handlers,
                   mounted, gen, qrId, status, isConnected, locVars,
                   audioVars>>

\* The revisions whose alert button asks window.confirm first.
AsksConfirm(v) == v \in {"App_a", "part_001", "part_003", "part_005"}

\* triggerAlert / triggerSOS.
TriggerSOS ==
    /\ Rendered
    /\ \E confirmed \in BOOLEAN :
          IF PayloadToken(variant) # Null /\ (AsksConfirm(variant) => confirmed)
          THEN /\ Commit(Emit(Io0, connected,
                      Packet(AlertEvent(variant), PayloadToken(variant), <<>>)))
               /\ ui' = (IF AsksConfirm(variant) THEN {"confirm:yes"} ELSE {})
                            \cup {"alert:SOS sent"}
          ELSE /\ NoEmit
               /\ ui' = IF AsksConfirm(variant) THEN {"confirm:no"} ELSE {}
    /\ UNCHANGED <<variant, urlId, connected, active, attempts, handlers,
                   compVars, locVars, audioVars>>

(***************************************************************************)
(* Inbound events.  A listener of a component instance that is no longer   *)
(* on screen still runs, but its setState has no effect.                   *)
(***************************************************************************)
RemoteTexts == {"ok"}

\* A variation of ReceiveChat: the handler puts the received entry at the
\* head of the log, [data, ...prev].
ReceiveChatPrepend ==
    /\ connected
    /\ handlers["receive-chat"] # {}
    /\ \E txt \in RemoteTexts :
          IF mounted /\ gen \in handlers["receive-chat"]
          THEN /\ Len(messages) < MaxLog
               /\ messages' = <<ChatEntry("Owner", txt)>> \o messages
          ELSE UNCHANGED messages
    /\ NoEmit
    /\ ui' = {}
    /\ UNCHANGED <<variant, urlId, sockVars, mounted, gen, qrId, status,
                   isConnected, inputText, locVars, audioVars>>

\* socket.on("receive-chat", (data) => setMessages(prev => [...prev, data]))
ReceiveChat ==
    /\ connected
    /\ handlers["receive-chat"] # {}
    /\ \E txt \in RemoteTexts :
          IF mounted /\ gen \in handlers["receive-chat"]
          THEN /\ Len(messages) < MaxLog
               /\ messages' = Append(messages, ChatEntry("Owner", txt))
          ELSE UNCHANGED messages
    /\ NoEmit
    /\ ui' = {}
    /\ UNCHANGED <<variant, urlId, sockVars, mounted, gen, qrId, status,
                   isConnected, inputText, locVars, audioVars>>

\* The clip a remote side sends.
RemoteClip == [mime |-> "audio/webm", base64 |-> <<9>>]

\* socket.on("receive-audio", ...): part_003 appends the clip, the other
\* revisions that listen play it at once.
ReceiveAudio ==
    /\ connected
    /\ handlers["receive-audio"] # {}
    /\ IF variant = "part_003"
       THEN /\ IF mounted /\ gen \in handlers["receive-audio"]
               THEN /\ Len(messages) < MaxLog
                    /\ messages' = Append(messages, AudioEntry("Family", RemoteClip))
               ELSE UNCHANGED messages
            /\ ui' = {}
       ELSE /\ ui' = {"play"}
            /\ UNCHANGED messages
    /\ NoEmit
    /\ UNCHANGED <<variant, urlId, sockVars, mounted, gen, qrId, status,
                   isConnected, inputText, locVars, audioVars>>

(***************************************************************************)
(* Specifications.                                                         *)
(*                                                                         *)
(* Next composes every handler.  The claims are checked under the          *)
(* specification of the part of the engine they are about: the link and    *)
(* location handlers (SpecLink), the capture machine with the transport    *)
(* coming and going (SpecAudio), and one mounted session, from the page    *)
(* load through the first connect, in which every emitting handler is      *)
(* exercised (SpecSession).                                                *)
(***************************************************************************)
LinkNext ==
    \/ Mount
    \/ Unmount
    \/ TransportConnect
    \/ TransportDisconnect
    \/ TransportFail
    \/ Heartbeat
    \/ WatchSample
    \/ WatchError
    \/ GeoSuccess
    \/ GeoError
    \/ UpdateLocation

AudioNext ==
    \/ StartRecording
    \/ GumResolve
    \/ GumReject
    \/ StopRecording
    \/ RecorderStopTask
    \/ ReaderLoadEnd
    \/ SentTimerFire

ChatNext ==
    \/ TypeText
    \/ SendMessage
    \/ TriggerSOS
    \/ ReceiveChat
    \/ ReceiveAudio

Next == LinkNext \/ AudioNext \/ ChatNext

Spec == Init /\ [][Next]_vars

SpecLink == Init /\ [][LinkNext]_vars

AudioSpecNext ==
    \/ Mount
    \/ TransportConnect
    \/ TransportDisconnect
    \/ AudioNext

SpecAudio == Init /\ [][AudioSpecNext]_vars

\* The capture machine with the microphone permission granted and the
\* captures made one after another: the button is pressed again only after
\* the clip of the previous capture was finalized.
CaptureNext ==
    \/ Mount
    \/ TransportConnect
    \/ TransportDisconnect
    \/ (StartRecording /\ gumPending = <<>>
                       /\ \A i \in 1..Len(recorders) : recorders[i].phase = "done")
    \/ GumResolve
    \/ StopRecording
    \/ RecorderStopTask
    \/ ReaderLoadEnd
    \/ SentTimerFire

SpecCapture == Init /\ [][CaptureNext]_vars

\* Captures begun in one session of SpecSession.
MaxSessionCaptures == 1

SessionNext ==
    \/ Mount
    \/ TransportConnect
    \/ Heartbeat
    \/ WatchSample
    \/ GeoSuccess
    \/ UpdateLocation
    \/ (StartRecording /\ Len(recorders) + Len(gumPending) < MaxSessionCaptures)
    \/ GumResolve
    \/ StopRecording
    \/ RecorderStopTask
    \/ ReaderLoadEnd
    \/ TypeText
    \/ SendMessage
    \/ TriggerSOS

SpecSession == Init /\ [][SessionNext]_vars

\* The capture machine with the component mounted and torn down.
TeardownNext ==
    \/ Unmount
    \/ AudioSpecNext

SpecTeardown == Init /\ [][TeardownNext]_vars

\* Inbound events with the component mounted and torn down and the
\* transport coming and going.
InboundNext ==
    \/ Mount
    \/ Unmount
    \/ TransportConnect
    \/ TransportDisconnect
    \/ ReceiveChat
    \/ ReceiveAudio

SpecInbound == Init /\ [][InboundNext]_vars

\* One mounted session with every handler that writes the chat log: the
\* local chat send, the two inbound events and the finalize of a capture.
LogNext ==
    \/ Mount
    \/ TransportConnect
    \/ TypeText
    \/ SendMessage
    \/ ReceiveChat
    \/ ReceiveAudio
    \/ (StartRecording /\ Len(recorders) + Len(gumPending) < MaxSessionCaptures)
    \/ GumResolve
    \/ StopRecording
    \/ RecorderStopTask
    \/ ReaderLoadEnd

SpecLog == Init /\ [][LogNext]_vars

\* The capture machine with every capture begun on a connected transport:
\* the button is pressed, and getUserMedia resolves, while the socket is
\* connected; the transport may go away afterwards.
MidCaptureNext ==
    \/ Mount
    \/ TransportConnect
    \/ TransportDisconnect
    \/ (StartRecording /\ connected)
    \/ (GumResolve /\ connected)
    \/ StopRecording
    \/ RecorderStopTask
    \/ ReaderLoadEnd
    \/ SentTimerFire

SpecMidCapture == Init /\ [][MidCaptureNext]_vars

\* One press of the hold button that is released before getUserMedia has
\* settled, and no user action after that.  The promise of getUserMedia
\* settles sooner or later, one way or the other.
TapNext ==
    \/ Mount
    \/ TransportConnect
    \/ TransportDisconnect
    \/ (StartRecording /\ ~TogglesMic(variant)
                       /\ Len(recorders) + Len(gumPending) < MaxSessionCaptures)
    \/ (StopRecording /\ ~TogglesMic(variant) /\ gumPending # <<>>)
    \/ GumResolve
    \/ GumReject

SpecTap == Init /\ [][TapNext]_vars /\ WF_vars(GumResolve \/ GumReject)


(***************************************************************************)
(* Properties.                                                             *)
(***************************************************************************)
Recs == 1..Len(recorders)
Outs == 1..Len(out)

\* C1: a beginCapture() issued while a capture is already active is a no-op:
\* no recorder is ever created from a startRecording call that was made
\* while another recorder was recording.
C1_SecondBeginIsNoOp ==
    \A i \in Recs : ~recorders[i].dup

\* C2: a clip finalized while the transport is not connected causes no
\* "send-audio" emit, and nothing of it waits in the send buffer for the
\* next connect.
C2_NoAudioSendWhileNotJoined ==
    /\ \A i \in Recs : recorders[i].via # "buffered"
    /\ \A k \in 1..Len(sendBuffer) : sendBuffer[k].ev # "send-audio"

\* C3: every completed capture (its onloadend has run) has appended exactly
\* one Self audio entry to the local log.
C3_EveryCaptureLogged ==
    \A i \in Recs : recorders[i].phase = "done" => recorders[i].logged = 1

\* Emit calls of "send-audio" among the emit records of a step.
AudioSends(o) ==
    Cardinality({k \in 1..Len(o) : o[k].pkt.ev = "send-audio" /\ o[k].via # "flushed"})

\* C4: a capture that was begun and ended makes exactly one "send-audio"
\* emit and the flag returns to idle: an endCapture issued on a connected
\* transport while the recorder the button controls is recording stops
\* that recorder; a capture
\* makes no emit before its clip is finalized and exactly one in the step
\* that finalizes it, which goes out at once when the transport is
\* connected; no other step emits one; and once the capture the button
\* controls is finalized the state flag no longer reads recording.
C4_OneAudioSendThenIdle ==
    /\ [](/\ \A i \in Recs :
              recorders[i].sends = IF recorders[i].phase = "done" THEN 1 ELSE 0
          /\ (mediaRecorderRef # 0 /\ recorders[mediaRecorderRef].phase = "done")
                => ~FlagRecording)
    /\ [][ (StopRecording /\ connected /\ mediaRecorderRef # 0
                          /\ recorders[mediaRecorderRef].state = "recording")
           => recorders'[mediaRecorderRef].state = "inactive" ]_vars
    /\ [][ IF \E i \in Recs : recorders[i].phase = "reading"
                               /\ recorders'[i].phase = "done"
           THEN /\ AudioSends(out') = 1
                /\ connected =>
                      \A k \in 1..Len(out') :
                         out'[k].pkt.ev = "send-audio" => out'[k].via = "sent"
           ELSE AudioSends(out') = 0 ]_vars

\* C5: no location-update is emitted while the transport is not connected,
\* and none goes out later from the send buffer.
C5_NoLocationWhileNotJoined ==
    \A k \in Outs : out[k].pkt.ev \in LocationEvents => out[k].via = "sent"

\* C6: whenever the connect listener runs and a position is known, that
\* step emits a location-update carrying the known position.
C6_JoinResendsKnownLocation ==
    [][ (TransportConnect /\ handlers["connect"] # {} /\ location # Null)
        => \E k \in 1..Len(out') :
              /\ out'[k].pkt.ev \in LocationEvents
              /\ out'[k].pkt.data = <<location>> ]_vars

\* C7: without a room token in the launch URL the engine is inert: the
\* socket is not connecting or connected, no listener is registered and
\* nothing is emitted.
C7_InertWithoutToken ==
    urlId = Null =>
        /\ ~connected
        /\ ~active
        /\ handlers = NoHandlers
        /\ out = <<>>

\* The token the session resolved at startup.
SessionToken == IF UsesQR_ID(variant) THEN QR_ID ELSE urlId

\* C8: every packet emitted, waiting in the send buffer or held by a
\* pending callback carries the token resolved at startup, which is not
\* null; state qrId of a rendered component equals it.
C8_TokenNeverChanges ==
    /\ \A k \in Outs : out[k].pkt.token = SessionToken /\ out[k].pkt.token # Null
    /\ \A k \in 1..Len(sendBuffer) : sendBuffer[k].token = SessionToken
    /\ (mounted /\ ~UsesQR_ID(variant)) => qrId = urlId

\* C8 witness: a session that has emitted a clip recorded by a revision
\* that keeps the token in state, tagged with the token of the URL.
C8_Witness ==
    /\ variant = "part_001"
    /\ \E k \in Outs : out[k].pkt.ev = "send-audio" /\ out[k].pkt.token = "ABC123"

\* C9: within one component instance the presented link state changes only
\* Disconnected -> Connecting, Connecting -> Joined or anything ->
\* Disconnected (or to the terminal invalid-token state); in particular
\* never from Disconnected straight to Joined.  "Reconnecting", the text
\* App_a shows after a disconnect, is read as both Disconnected and
\* Connecting.
C9_LinkStateTransitions ==
    [][ (gen' = gen /\ status' # status) =>
            \/ status \in {"Disconnected", "Reconnecting"} /\ status' = "Connecting"
            \/ status \in {"Connecting", "Reconnecting"} /\ status' = "Joined"
            \/ status' \in {"Disconnected", "Reconnecting"}
            \/ status' = "Invalid" ]_vars

JoinCount(o) == Cardinality({k \in 1..Len(o) : o[k].pkt.ev \in JoinEvents})

\* C10: the step that brings a component with a resolved token together
\* with a connected transport (the transport connects after the mount, or
\* the component mounts on a connected transport) ends with the link state
\* Joined and sends exactly one join-announcement carrying the token.
C10_OneJoinPerConnect ==
    [][ (mounted' /\ connected' /\ ~(mounted /\ connected) /\ urlId # Null)
        => /\ status' = "Joined"
           /\ JoinCount(out') = 1
           /\ \A k \in 1..Len(out') :
                 out'[k].pkt.ev \in JoinEvents => out'[k].pkt.token = urlId ]_vars

\* C11: every step in which the transport becomes connected while a
\* component with a resolved token is mounted sends a join announcement
\* carrying the token (emitted by the connect listener, or flushed from the
\* send buffer).
C11_RejoinAfterReconnect ==
    [][ (TransportConnect /\ mounted /\ ClosureId(variant) # Null)
        => \E k \in 1..Len(out') :
              /\ out'[k].pkt.ev \in JoinEvents
              /\ out'[k].pkt.token = ClosureId(variant) ]_vars

C13_RetriesWithoutBound ==
    (mounted /\ ~connected /\ attempts > 0) => active

\* C14: in the revisions with a bounded reconnectionAttempts, once the
\* attempts are exhausted the presented state of a component with a token
\* is a terminal one: not connecting, joined or (plain) disconnected.
C14_UnreachableSurfaced ==
    ( /\ mounted /\ urlId # Null
      /\ ReconnectionAttempts(variant) # Infinity
      /\ ~connected /\ ~active
      /\ attempts >= ReconnectionAttempts(variant) )
    => status \notin {"Connecting", "Joined", "Disconnected", "Reconnecting"}

\* C15: after the cleanup of the mount effect nothing of the component is
\* left running: no heartbeat interval, no "sent" timer, no listener on the
\* socket, no position watch.
C15_NoBackgroundAfterTeardown ==
    (~mounted /\ gen > 0) =>
        /\ ~heartbeat
        /\ ~watching
        /\ sentTimers = 0
        /\ handlers = NoHandlers

\* C16: the cleanup of the mount effect stops the capture: the step that
\* tears the component down leaves no recorder recording and no
\* getUserMedia stream with live tracks.
C16_TeardownStopsCapture ==
    [][ Unmount =>
          \A i \in 1..Len(recorders') :
             recorders'[i].state # "recording" /\ ~recorders'[i].stream ]_vars

C18_RejectsBlankText ==
    [][ (SendMessage /\ Trim(inputText) = "") =>
          /\ messages' = messages
          /\ out' = <<>>
          /\ sendBuffer' = sendBuffer ]_vars

\* C19: a chat send of a non-blank text on a connected transport appends
\* exactly one entry to the end of the log, tagged "Helper" and carrying
\* the text, and emits exactly one "send-chat", which goes out at once and
\* carries the text and the sender of that entry.
C19_ChatSendEchoesAndEmits ==
    [][ (SendMessage /\ connected /\ Trim(inputText) # "") =>
          /\ Len(messages') = Len(messages) + 1
          /\ SubSeq(messages', 1, Len(messages)) = messages
          /\ messages'[Len(messages')].sender = "Helper"
          /\ messages'[Len(messages')].text = inputText
          /\ Len(out') = 1
          /\ out'[1].pkt.ev = "send-chat"
          /\ out'[1].via = "sent"
          /\ out'[1].pkt.data = <<messages'[Len(messages')].text,
                                  messages'[Len(messages')].sender>> ]_vars

\* C19 witness: "help" was sent on a connected transport: it is the last
\* entry of the log and the step emitted it.
C19_Witness ==
    /\ connected
    /\ Len(messages) >= 1
    /\ messages[Len(messages)] = ChatEntry("Helper", "help")
    /\ Len(out) = 1
    /\ out[1].pkt.ev = "send-chat" /\ out[1].via = "sent"
    /\ out[1].pkt.data = <<"help", "Helper">>

\* C20: a chat send of a non-blank text while the transport is not
\* connected appends the local entry and produces no outbound event:
\* nothing is emitted and nothing is put in the send buffer for the next
\* connect.
C20_NoChatEventWhileNotJoined ==
    [][ (SendMessage /\ ~connected /\ Trim(inputText) # "") =>
          /\ Len(messages') = Len(messages) + 1
          /\ messages'[Len(messages')].text = inputText
          /\ out' = <<>>
          /\ sendBuffer' = sendBuffer ]_vars

\* C21: the log of a component instance is append-only: whatever handler
\* runs (a local chat send, an inbound chat, an inbound clip, the finalize
\* of a capture), the log before the step is a prefix of the log after it.
C21_LogAppendOnly ==
    [][ (mounted /\ mounted' /\ gen' = gen) =>
          /\ Len(messages) <= Len(messages')
          /\ SubSeq(messages', 1, Len(messages)) = messages ]_vars

\* C21 witness: a log that two different handlers wrote, an inbound chat
\* first and a local send after it.
C21_Witness ==
    /\ mounted
    /\ Len(messages) = 2
    /\ messages[1].sender = "Owner"
    /\ messages[2] = ChatEntry("Helper", "help")

\* C22: every inbound "receive-audio" delivered while the component is on
\* screen appends exactly one entry to the end of its log: an audio clip,
\* not tagged as the helper's own, that carries the received audio.
C22_OneClipPerInboundAudio ==
    [][ (ReceiveAudio /\ mounted) =>
          /\ Len(messages') = Len(messages) + 1
          /\ SubSeq(messages', 1, Len(messages)) = messages
          /\ messages'[Len(messages')].type = "audio"
          /\ messages'[Len(messages')].sender # "Helper"
          /\ messages'[Len(messages')].audioData = RemoteClip ]_vars

\* C23: the handler of an inbound "receive-audio" never starts playback.
C23_InboundAudioNotPlayed ==
    [][ ReceiveAudio => "play" \notin ui' ]_vars

\* C24: the alert handler emits only after the user confirmed: a confirmed
\* trigger emits exactly one alert event, carrying the room token; a
\* trigger that was declined, or never put to the user, emits nothing.
C24_AlertOnlyAfterConfirm ==
    [][ TriggerSOS =>
          /\ "confirm:yes" \in ui' =>
                /\ Len(out') = 1
                /\ out'[1].pkt.ev \in AlertEvents
                /\ out'[1].pkt.token = SessionToken
          /\ "confirm:yes" \notin ui' =>
                /\ out' = <<>>
                /\ sendBuffer' = sendBuffer ]_vars

\* C25: when getUserMedia rejects the one capture that was asked for (no
\* other request is waiting and every earlier capture is finalized), the
\* failure is shown to the user, the flag reads idle afterwards, no
\* recorder was created or made current, nothing is emitted, and the guards
\* of startRecording accept the next press.
C25_AcquireFailureLeavesIdle ==
    [][ ( /\ GumReject
          /\ mounted
          /\ Len(gumPending) = 1
          /\ gumPending[1].gen = gen
          /\ \A i \in 1..Len(recorders) : recorders[i].phase = "done" )
        => /\ "alert:Microphone access denied" \in ui'
           /\ ~FlagRecording'
           /\ recorders' = recorders
           /\ mediaRecorderRef' = mediaRecorderRef
           /\ gumPending' = <<>>
           /\ out' = <<>>
           /\ StartGuard(variant)'
           /\ TogglesMic(variant) => ~isRecording' ]_vars

\* C25 witness: the microphone was refused to the component on screen: the
\* alert is up, the flag reads idle, no recorder exists and no request is
\* waiting.
C25_Witness ==
    /\ mounted
    /\ variant = "part_005"
    /\ "alert:Microphone access denied" \in ui
    /\ audioState = "idle"
    /\ recorders = <<>>
    /\ gumPending = <<>>
    /\ mediaRecorderRef = 0

\* C26: once a capture is finalized and the flag reads idle, the media
\* stream of that capture is no longer open.
C26_StreamReleasedAfterCapture ==
    \A i \in Recs :
        (recorders[i].phase = "done" /\ ~FlagRecording) => ~recorders[i].stream

\* C27: a failure of the location source (the error callback of
\* getCurrentPosition or of watchPosition) changes nothing but the pending
\* request and what the user is shown: the socket, its listeners, the link
\* status, the log, the input, the watch, the heartbeat, the last position
\* and the capture machine are as before and nothing is emitted; and where
\* the "UPDATE LOC" button is on screen, its handler's guards hold after
\* the failure, so the next click issues a new request.
C27_LocationFailureIsolated ==
    /\ [][ (GeoError \/ WatchError) =>
             /\ UNCHANGED <<sockVars, compVars, heartbeat, watching, location,
                            audioVars>>
             /\ out' = <<>> ]_vars
    /\ [][ (GeoError /\ Rendered /\ variant = "part_003") =>
             /\ Rendered'
             /\ qrId' # Null
             /\ Len(geoPending') < Len(geoPending) ]_vars
    /\ [][ (UpdateLocation /\ "log:location error" \in ui) =>
             /\ Len(geoPending') = Len(geoPending) + 1
             /\ geoPending'[Len(geoPending')] = GeoRequest(qrId, FALSE) ]_vars

\* C27 witness: part_003 on screen and connected, a location request
\* issued with the button has just failed.
C27_Witness ==
    /\ variant = "part_003"
    /\ mounted /\ connected /\ isConnected
    /\ "alert:Could not get location" \in ui
    /\ geoPending = <<>>

\* C28: two startRecording calls that were both made while nothing was
\* recording (the second while the first still waited for getUserMedia)
\* never both end up with a started recorder: at most one recorder of a
\* component instance whose call saw no recording is recording.
C28_OneSessionForOverlappingBegins ==
    \A i, j \in Recs :
        ( /\ i < j
          /\ recorders[i].gen = recorders[j].gen
          /\ ~recorders[i].dup /\ ~recorders[j].dup )
        => ~(recorders[i].state = "recording" /\ recorders[j].state = "recording")

\* C29: stopRecording while no capture is active (no recorder is recording
\* and no request for the microphone is waiting: before any capture, after
\* a capture was stopped, or while a stopped capture is still being
\* finalized) does nothing: no error is raised, no recorder is touched, the
\* flag, the current recorder and the log are as before, nothing is emitted.
C29_EndWithoutCaptureIsNoOp ==
    [][ (StopRecording /\ ~Capturing /\ gumPending = <<>>) =>
          /\ "error:InvalidStateError" \notin ui'
          /\ UNCHANGED <<recorders, isRecording, audioState, mediaRecorderRef,
                         messages>>
          /\ out' = <<>> ]_vars

\* C30: in the press-and-hold revisions every release of the one press
\* whose recorder was started (mouse up, touch end, pointer leave, alone or
\* one after another) ends the capture, and ends it once: after the
\* release nothing is recording, stop() is called only on a recorder that
\* is recording, and no error is raised.
C30_ReleaseEndsCaptureOnce ==
    [][ ( /\ StopRecording
          /\ ~TogglesMic(variant)
          /\ Len(recorders) = 1
          /\ gumPending = <<>> )
        => /\ "error:InvalidStateError" \notin ui'
           /\ ~Capturing'
           /\ StopGuard(variant) => recorders[mediaRecorderRef].state = "recording" ]_vars

\* C31: a disconnect while a capture is under way leaves the capture
\* machine as it is (the recorder keeps recording, its chunks are kept),
\* and the finalize of that capture transmits by the link at that moment:
\* one "send-audio" goes out if the transport is connected, and if it is
\* not, nothing is emitted and nothing is put in the send buffer.
C31_DisconnectMidCapture ==
    /\ [][ TransportDisconnect => UNCHANGED audioVars ]_vars
    /\ [][ ReaderLoadEnd =>
             IF connected
             THEN /\ Len(out') = 1
                  /\ out'[1].pkt.ev = "send-audio"
                  /\ out'[1].via = "sent"
             ELSE /\ out' = <<>>
                  /\ sendBuffer' = sendBuffer ]_vars

\* C32: the payload of a clip is made of the chunks its own recorder
\* produced and of nothing else: a blob that onstop assembled holds no
\* chunk of another recorder, also when a new capture was begun while the
\* stop of the previous one was still pending.
C32_ClipHoldsOwnChunks ==
    \A i \in Recs :
        recorders[i].phase \in {"reading", "done"} =>
            \A k \in 1..Len(recorders[i].blob) : recorders[i].blob[k] \in {0, i}

\* C33: in the press-and-hold revisions, once the button was released
\* while the press still waited for getUserMedia, the capture machine comes
\* to rest without any further user action: no request is waiting, no
\* recorder is recording and the flag reads idle.
C33_EarlyReleaseComesToRest ==
    (~TogglesMic(variant) /\ \E k \in 1..Len(gumPending) : gumPending[k].released)
        ~> (gumPending = <<>> /\ ~Capturing /\ ~FlagRecording)

\* C34: the flag of the microphone button agrees with the recorder: while
\* a recorder of the component on screen is recording the flag reads
\* recording, also for a capture that was begun while the "sent" display
\* of the previous clip was still up, so that its stopRecording is accepted.
C34_FlagAgreesWithRecorder ==
    (mounted /\ \E i \in Recs : recorders[i].gen = gen /\ recorders[i].state = "recording")
        => FlagRecording

\* C35: the link state the component on screen shows reads connected
\* (the status text, or part_003's isConnected) only while the socket is
\* connected: it is not set before the transport has connected and it is
\* left as soon as the transport disconnects.
C35_ShownConnectedOnlyWhileConnected ==
    (mounted /\ (status = "Joined" \/ isConnected)) => connected
====
